---- MODULE Spec2Model ----
(***************************************************************************)
(* The example classes of the two notebooks (dataclasses and @property),   *)
(* modelled as a notebook kernel: the names the cells bind, the statement  *)
(* executed last, what it displayed and what it raised.                    *)
(*                                                                         *)
(* An object is a record [class, id, dict]: its class, its identity and    *)
(* its instance attributes (a function from attribute names to values).    *)
(* The examples share no state, so a behaviour exercises one example.      *)
(*                                                                         *)
(* Numbers: Rectangle and Circle take integers (as the cells do).          *)
(* Temperatures are in hundredths of a degree Celsius, math.pi is in       *)
(* units of 1e-5.                                                          *)
(***************************************************************************)
EXTENDS FiniteSets, Integers, Sequences, TLC

VARIABLES example, person1, person2, product, point, rec, o, temp,
          stmt, ctor, out, raised

vars == <<example, person1, person2, product, point, rec, o, temp,
          stmt, ctor, out, raised>>

(* ------------------------------ bounds -------------------------------- *)

MaxAge == 2
MaxPrice == 2
MaxCoord == 2
MaxDim == 2
MaxRadius == 3
MaxDelta == 2

(* --------------------------- Python values ---------------------------- *)

Unbound == [class |-> "<unbound>"]
NoStmt == [op |-> "<none>"]
NoOut == [type |-> "<nothing>"]
NoneV == [type |-> "NoneType"]
NaN == [type |-> "nan"]
Float(n) == [type |-> "float", val |-> n]
Bool(b) == [type |-> "bool", val |-> b]
List(s) == [type |-> "list", val |-> s]

IsNumber(v) == v.type = "float"

Examples == {"Person", "Product", "Point", "Rectangle", "Circle", "Temperature"}

Names == {"Prakhar", "Jan"}
Ages == 0..MaxAge
Emails == {"prhkrd@icloud.com", "jan@example.com"}

(* ------------------------------- Person ------------------------------- *)

Person_fields == <<"name", "age", "email">>

Person__init__(id, name, age, email) ==
    [class |-> "Person", id |-> id,
     dict |-> [name |-> name, age |-> age, email |-> email]]

FieldTuple(self, fields) == [i \in DOMAIN fields |-> self.dict[fields[i]]]

object__eq__(self, other) ==
    self.id = other.id

Person__eq__ByIdentity(self, other) ==
    object__eq__(self, other)

Person__eq__(self, other) ==
    IF other.class = self.class
    THEN FieldTuple(self, Person_fields) = FieldTuple(other, Person_fields)
    ELSE object__eq__(self, other)

\* A statement that binds no new object: stmt is the statement executed last,
\* ctor the constructor call that built the object the example works on.
Common(s) ==
    /\ stmt' = s
    /\ UNCHANGED <<example, ctor>>

\* A constructor call that completes.
Construct(s) ==
    /\ stmt' = s
    /\ ctor' = s
    /\ UNCHANGED example

NewPerson1 ==
    /\ example = "Person"
    /\ \E name \in Names, age \in Ages, email \in Emails :
          /\ person1' = Person__init__(1, name, age, email)
          /\ Construct([op |-> "person1 = Person", name |-> name, age |-> age, email |-> email])
    /\ out' = NoOut
    /\ raised' = "none"
    /\ UNCHANGED <<person2, product, point, rec, o, temp>>

NewPerson2 ==
    /\ example = "Person"
    /\ \E name \in Names, age \in Ages, email \in Emails :
          /\ person2' = Person__init__(2, name, age, email)
          /\ Construct([op |-> "person2 = Person", name |-> name, age |-> age, email |-> email])
    /\ out' = NoOut
    /\ raised' = "none"
    /\ UNCHANGED <<person1, product, point, rec, o, temp>>

ComparePersons ==
    /\ example = "Person"
    /\ person1 # Unbound
    /\ person2 # Unbound
    /\ Common([op |-> "person1 == person2"])
    /\ out' = Bool(Person__eq__(person1, person2))
    /\ raised' = "none"
    /\ UNCHANGED <<person1, person2, product, point, rec, o, temp>>

(* ------------------------------- Product ------------------------------ *)

Prices == 0..MaxPrice
Categories == {"General", "Books"}
TagLists == {<<>>, <<"new">>, <<"new", "sale">>}

Product_category_default == "General"
Product_in_stock_default == TRUE
Product_tags_default == NoneV

\* The generated __init__: stores the five fields as passed.
Product__init__(name, price, category, in_stock, tags) ==
    [class |-> "Product", id |-> 1,
     dict |-> [name |-> name, price |-> price, category |-> category,
               in_stock |-> in_stock, tags |-> tags]]

Product__post_init__NoCheck(self) ==
    self

Product__post_init__(self) ==
    IF self.dict.tags = NoneV
    THEN [self EXCEPT !.dict.tags = List(<<>>)]
    ELSE self

\* kw is the set of optional keyword arguments the call supplies; the others
\* take their declared defaults.
NewProduct ==
    /\ example = "Product"
    /\ \E name \in Names, price \in Prices, kw \in SUBSET {"category", "in_stock", "tags"},
          category \in Categories, in_stock \in BOOLEAN,
          tags \in {NoneV} \cup {List(t) : t \in TagLists} :
          LET c == IF "category" \in kw THEN category ELSE Product_category_default
              s == IF "in_stock" \in kw THEN in_stock ELSE Product_in_stock_default
              t == IF "tags" \in kw THEN tags ELSE Product_tags_default
          IN /\ product' = Product__post_init__(Product__init__(name, price, c, s, t))
             /\ Construct([op |-> "product = Product", kw |-> kw, name |-> name,
                           price |-> price, category |-> c, in_stock |-> s, tags |-> t])
    /\ out' = NoOut
    /\ raised' = "none"
    /\ UNCHANGED <<person1, person2, point, rec, o, temp>>

PrintProductTags ==
    /\ example = "Product"
    /\ product # Unbound
    /\ Common([op |-> "print(product.tags)"])
    /\ out' = product.dict.tags
    /\ raised' = "none"
    /\ UNCHANGED <<person1, person2, product, point, rec, o, temp>>

(* -------------------------------- Point ------------------------------- *)

Coords == 0..MaxCoord

Point__init__(x, y) ==
    [class |-> "Point", id |-> 1, dict |-> [x |-> x, y |-> y]]

\* The result of a statement on an object: the object afterwards and the
\* exception raised ("none" when the statement completes).
Result(self, exc) == [self |-> self, raised |-> exc]

object__setattr__(self, name, value) ==
    Result([self EXCEPT !.dict = [k \in DOMAIN self.dict \cup {name} |->
                                     IF k = name THEN value ELSE self.dict[k]]],
           "none")

Point__setattr__NotFrozen(self, name, value) ==
    object__setattr__(self, name, value)

\* frozen=True: the generated __setattr__ raises for every name.
Point__setattr__(self, name, value) ==
    Result(self, "FrozenInstanceError")

NewPoint ==
    /\ example = "Point"
    /\ \E x \in Coords, y \in Coords :
          /\ point' = Point__init__(x, y)
          /\ Construct([op |-> "point = Point", x |-> x, y |-> y])
    /\ out' = NoOut
    /\ raised' = "none"
    /\ UNCHANGED <<person1, person2, product, rec, o, temp>>

AssignPoint ==
    /\ example = "Point"
    /\ point # Unbound
    /\ \E name \in {"x", "y"}, value \in Coords :
          LET r == Point__setattr__(point, name, value)
          IN /\ point' = r.self
             /\ raised' = r.raised
             /\ Common([op |-> "point.<name> = value", name |-> name, value |-> value])
    /\ out' = NoOut
    /\ UNCHANGED <<person1, person2, product, rec, o, temp>>

(* ------------------------------ Rectangle ----------------------------- *)

Dims == 1..MaxDim

\* multiplier is an InitVar and area has init=False: the generated __init__
\* takes width, height and multiplier.
Rectangle_init_params == {"width", "height", "multiplier"}

Rectangle__post_init__NoMultiplier(self, multiplier) ==
    object__setattr__(self, "area", self.dict.width * self.dict.height).self

Rectangle__post_init__(self, multiplier) ==
    object__setattr__(self, "area", self.dict.width * self.dict.height * multiplier).self

\* The generated __init__: stores width and height, then hands multiplier to
\* __post_init__ without storing it.
Rectangle__init__(width, height, multiplier) ==
    Rectangle__post_init__(
        [class |-> "Rectangle", id |-> 1, dict |-> [width |-> width, height |-> height]],
        multiplier)

Rectangle__setattr__Recompute(self, name, value) ==
    LET r == object__setattr__(self, name, value).self
    IN Result([r EXCEPT !.dict.area = r.dict.width * r.dict.height], "none")

\* Not frozen: an assignment stores the value and does nothing else.
Rectangle__setattr__(self, name, value) ==
    object__setattr__(self, name, value)

NewRectangle ==
    /\ example = "Rectangle"
    /\ \E width \in Dims, height \in Dims, multiplier \in Dims :
          /\ {"width", "height", "multiplier"} \subseteq Rectangle_init_params
          /\ rec' = Rectangle__init__(width, height, multiplier)
          /\ Construct([op |-> "rec = Rectangle", width |-> width, height |-> height,
                        multiplier |-> multiplier])
    /\ out' = NoOut
    /\ raised' = "none"
    /\ UNCHANGED <<person1, person2, product, point, o, temp>>

\* Rectangle(width=.., height=.., multiplier=.., area=..): an unexpected
\* keyword argument, so the call raises and binds nothing.
NewRectangleWithArea ==
    /\ example = "Rectangle"
    /\ \E width \in Dims, height \in Dims, multiplier \in Dims, area \in Dims :
          /\ ~({"width", "height", "multiplier", "area"} \subseteq Rectangle_init_params)
          /\ Common([op |-> "rec = Rectangle(area=)", width |-> width, height |-> height,
                     multiplier |-> multiplier, area |-> area])
    /\ out' = NoOut
    /\ raised' = "TypeError"
    /\ UNCHANGED <<person1, person2, product, point, rec, o, temp>>

AssignRectangle ==
    /\ example = "Rectangle"
    /\ rec # Unbound
    /\ \E name \in {"width", "height", "area", "multiplier"}, value \in Dims :
          LET r == Rectangle__setattr__(rec, name, value)
          IN /\ rec' = r.self
             /\ raised' = r.raised
             /\ Common([op |-> "rec.<name> = value", name |-> name, value |-> value])
    /\ out' = NoOut
    /\ UNCHANGED <<person1, person2, product, point, o, temp>>

(* ------------------------------- Circle ------------------------------- *)

Radii == 0..MaxRadius

math_pi == 314159

\* What reading an attribute gives: a value, or an exception.
Value(v) == [value |-> v, raised |-> "none"]
Raise(exc) == [value |-> NoOut, raised |-> exc]

Circle__init__(radius) ==
    [class |-> "Circle", id |-> 1, dict |-> [_radius |-> radius]]

Circle_radius(self) ==
    Value(Float(self.dict._radius))

Circle_area(self) ==
    Value(Float(math_pi * self.dict._radius * 2))

\* radius and area are properties without a setter.
Circle__setattr__(self, name, value) ==
    IF name \in {"radius", "area"}
    THEN Result(self, "AttributeError")
    ELSE object__setattr__(self, name, value)

NewCircle ==
    /\ example = "Circle"
    /\ \E radius \in Radii :
          /\ o' = Circle__init__(radius)
          /\ Construct([op |-> "o = Circle", radius |-> radius])
    /\ out' = NoOut
    /\ raised' = "none"
    /\ UNCHANGED <<person1, person2, product, point, rec, temp>>

PrintCircleRadius ==
    /\ example = "Circle"
    /\ o # Unbound
    /\ Common([op |-> "print(o.radius)"])
    /\ out' = Circle_radius(o).value
    /\ raised' = Circle_radius(o).raised
    /\ UNCHANGED <<person1, person2, product, point, rec, o, temp>>

PrintCircleArea ==
    /\ example = "Circle"
    /\ o # Unbound
    /\ Common([op |-> "print(o.area)"])
    /\ out' = Circle_area(o).value
    /\ raised' = Circle_area(o).raised
    /\ UNCHANGED <<person1, person2, product, point, rec, o, temp>>

AssignCircle ==
    /\ example = "Circle"
    /\ o # Unbound
    /\ \E name \in {"radius", "area", "_radius"}, value \in Radii :
          LET r == Circle__setattr__(o, name, value)
          IN /\ o' = r.self
             /\ raised' = r.raised
             /\ Common([op |-> "o.<name> = value", name |-> name, value |-> value])
    /\ out' = NoOut
    /\ UNCHANGED <<person1, person2, product, point, rec, temp>>

(* ----------------------------- Temperature ---------------------------- *)

AbsoluteZero == -27315

Numbers == {Float(AbsoluteZero + d) : d \in (0 - MaxDelta)..MaxDelta}
               \cup {Float(-1000), Float(0)}

Temperature_celsius_default == NoneV

Temperature__init__(celsius) ==
    [class |-> "Temperature", id |-> 1, dict |-> [_celsius |-> celsius]]

Temperature_celsius_getter(self) ==
    IF "_celsius" \in DOMAIN self.dict
    THEN Value(self.dict._celsius)
    ELSE Raise("AttributeError")

\* value < bound, for a number bound: None does not order against a number,
\* and every comparison with nan is False.
Less(value, bound) ==
    CASE value = NoneV -> Raise("TypeError")
      [] value = NaN -> Value(FALSE)
      [] OTHER -> Value(value.val < bound)

Temperature_celsius_setter_AssignFirst(self, value) ==
    LET lt == Less(value, AbsoluteZero)
        r == object__setattr__(self, "_celsius", value).self
    IN IF lt.raised # "none" THEN Result(r, lt.raised)
       ELSE IF lt.value THEN Result(r, "ValueError")
       ELSE Result(r, "none")

Temperature_celsius_setter(self, value) ==
    LET lt == Less(value, AbsoluteZero)
    IN IF lt.raised # "none" THEN Result(self, lt.raised)
       ELSE IF lt.value THEN Result(self, "ValueError")
       ELSE object__setattr__(self, "_celsius", value)

Temperature_celsius_deleter_Remove(self) ==
    Result([self EXCEPT !.dict = [k \in DOMAIN self.dict \ {"_celsius"} |-> self.dict[k]]],
           "none")

Temperature_celsius_deleter(self) ==
    object__setattr__(self, "_celsius", NoneV)

NewTemperature ==
    /\ example = "Temperature"
    /\ \E kw \in SUBSET {"celsius"}, celsius \in Numbers \cup {NoneV} :
          LET c == IF "celsius" \in kw THEN celsius ELSE Temperature_celsius_default
          IN /\ temp' = Temperature__init__(c)
             /\ Construct([op |-> "temp = Temperature", kw |-> kw, celsius |-> c])
    /\ out' = NoOut
    /\ raised' = "none"
    /\ UNCHANGED <<person1, person2, product, point, rec, o>>

AssignTemperature ==
    /\ example = "Temperature"
    /\ temp # Unbound
    /\ \E value \in Numbers \cup {NoneV, NaN} :
          LET r == Temperature_celsius_setter(temp, value)
          IN /\ temp' = r.self
             /\ raised' = r.raised
             /\ Common([op |-> "temp.celsius = value", value |-> value])
    /\ out' = NoOut
    /\ UNCHANGED <<person1, person2, product, point, rec, o>>

DeleteTemperature ==
    /\ example = "Temperature"
    /\ temp # Unbound
    /\ LET r == Temperature_celsius_deleter(temp)
       IN /\ temp' = r.self
          /\ raised' = r.raised
    /\ Common([op |-> "del temp.celsius"])
    /\ out' = [type |-> "str", val |-> "Deleting temperature"]
    /\ UNCHANGED <<person1, person2, product, point, rec, o>>

PrintTemperature ==
    /\ example = "Temperature"
    /\ temp # Unbound
    /\ Common([op |-> "print(temp.celsius)"])
    /\ out' = Temperature_celsius_getter(temp).value
    /\ raised' = Temperature_celsius_getter(temp).raised
    /\ UNCHANGED <<person1, person2, product, point, rec, o, temp>>

(* ---------------------------- specification --------------------------- *)

Init ==
    /\ example \in Examples
    /\ person1 = Unbound
    /\ person2 = Unbound
    /\ product = Unbound
    /\ point = Unbound
    /\ rec = Unbound
    /\ o = Unbound
    /\ temp = Unbound
    /\ stmt = NoStmt
    /\ ctor = NoStmt
    /\ out = NoOut
    /\ raised = "none"

Next ==
    \/ NewPerson1
    \/ NewPerson2
    \/ ComparePersons
    \/ NewProduct
    \/ PrintProductTags
    \/ NewPoint
    \/ AssignPoint
    \/ NewRectangle
    \/ NewRectangleWithArea
    \/ AssignRectangle
    \/ NewCircle
    \/ PrintCircleRadius
    \/ PrintCircleArea
    \/ AssignCircle
    \/ NewTemperature
    \/ AssignTemperature
    \/ DeleteTemperature
    \/ PrintTemperature

Spec == Init /\ [][Next]_vars

(* ------------------------------- claims ------------------------------- *)

SameFields(p, q) ==
    /\ p.dict.name = q.dict.name
    /\ p.dict.age = q.dict.age
    /\ p.dict.email = q.dict.email

\* C1: person1 == person2 evaluates to True when the two Person records
\* were constructed with identical name, age and email (although they are
\* distinct objects), and to False when any of the three fields differs.
C1_PersonEquality ==
    stmt.op = "person1 == person2" =>
        /\ person1.id # person2.id
        /\ out = Bool(SameFields(person1, person2))

C1_Witness ==
    /\ stmt.op = "person1 == person2"
    /\ person1.id # person2.id
    /\ SameFields(person1, person2)
    /\ out = Bool(TRUE)

\* C2: a Product constructed without tags, or with tags=None, has an empty
\* list as tags once construction (__init__, then __post_init__) completes,
\* never None, whatever name, price, category and in_stock are.
C2_ProductTagsDefault ==
    (stmt.op = "product = Product" /\ stmt.tags = NoneV) =>
        /\ product.dict.tags = List(<<>>)
        /\ product.dict.tags # NoneV

C2_Witness ==
    /\ stmt.op = "product = Product"
    /\ "tags" \notin stmt.kw
    /\ stmt.kw = {"category", "in_stock"}
    /\ stmt.category = "Books"
    /\ product.dict.tags = List(<<>>)

\* C3: every assignment to x or y of a constructed Point fails with
\* FrozenInstanceError, and after any sequence of such assignments x and y
\* still hold the values given at construction.
C3_PointFrozen ==
    (example = "Point" /\ point # Unbound) =>
        /\ stmt.op = "point.<name> = value" => raised = "FrozenInstanceError"
        /\ point.dict = [x |-> ctor.x, y |-> ctor.y]

C3_Witness ==
    /\ stmt.op = "point.<name> = value"
    /\ stmt.name = "x"
    /\ stmt.value # ctor.x
    /\ raised = "FrozenInstanceError"
    /\ point.dict.x = ctor.x

\* C4: right after Rectangle(width, height, multiplier) the area is
\* width * height * multiplier and the record stores exactly width, height
\* and area (no multiplier); a constructor call that passes area fails.
C4_RectangleArea ==
    /\ stmt.op = "rec = Rectangle" =>
          /\ rec.dict.area = stmt.width * stmt.height * stmt.multiplier
          /\ rec.dict.width = stmt.width
          /\ rec.dict.height = stmt.height
          /\ DOMAIN rec.dict = {"width", "height", "area"}
    /\ stmt.op = "rec = Rectangle(area=)" => raised = "TypeError"

C4_Witness ==
    /\ stmt.op = "rec = Rectangle"
    /\ stmt.multiplier = 2
    /\ stmt.width = 1
    /\ stmt.height = 1
    /\ rec.dict.area = 2
    /\ "multiplier" \notin DOMAIN rec.dict

CelsiusAllowed(v) ==
    \/ v = NoneV
    \/ (IsNumber(v) /\ v.val >= AbsoluteZero)

\* C5: whatever the constructor argument and whatever assignments and
\* deletions follow, the value read from temp.celsius is None or a number
\* >= -273.15.
C5_TemperatureNeverBelowZeroK ==
    temp # Unbound =>
        /\ Temperature_celsius_getter(temp).raised = "none"
        /\ CelsiusAllowed(Temperature_celsius_getter(temp).value)

\* C6: Circle.area read as an attribute is pi * radius^2 for the stored
\* radius, and nothing but _radius is stored on the object.
C6_CircleArea ==
    stmt.op = "print(o.area)" =>
        /\ out = Float(math_pi * o.dict._radius * o.dict._radius)
        /\ DOMAIN o.dict = {"_radius"}

\* C7: temp.celsius = v with v < -273.15 raises ValueError and leaves the
\* stored value as it was; with v >= -273.15 (the boundary included) it
\* succeeds and a following read returns v.
C7_SetterValidates ==
    [][stmt'.op = "temp.celsius = value" =>
          LET v == stmt'.value
          IN /\ (IsNumber(v) /\ v.val < AbsoluteZero) =>
                    /\ raised' = "ValueError"
                    /\ temp' = temp
             /\ (IsNumber(v) /\ v.val >= AbsoluteZero) =>
                    /\ raised' = "none"
                    /\ Temperature_celsius_getter(temp') = Value(v)]_vars

C7_Witness ==
    /\ stmt.op = "temp.celsius = value"
    /\ IsNumber(stmt.value)
    /\ stmt.value.val < AbsoluteZero
    /\ raised = "ValueError"
    /\ temp.dict._celsius = Float(AbsoluteZero)

\* C8: after del temp.celsius, whatever was stored, a read returns None
\* without raising, a later valid assignment is accepted, and the attribute
\* is still there, so a second delete changes nothing.
C8_DeleteRestoresDefault ==
    stmt.op = "del temp.celsius" =>
        /\ raised = "none"
        /\ Temperature_celsius_getter(temp) = Value(NoneV)
        /\ "_celsius" \in DOMAIN temp.dict
        /\ Temperature_celsius_deleter(temp) = Result(temp, "none")
        /\ \A v \in Numbers : v.val >= AbsoluteZero =>
              LET r == Temperature_celsius_setter(temp, v)
              IN /\ r.raised = "none"
                 /\ Temperature_celsius_getter(r.self) = Value(v)

C8_Witness ==
    /\ stmt.op = "del temp.celsius"
    /\ ctor.celsius = Float(-1000)
    /\ temp.dict._celsius = NoneV
    /\ raised = "none"

\* C9: an assignment to width or height of a constructed Rectangle changes
\* that field only, so area keeps the value computed at construction; a read
\* of Circle.area is computed from the radius stored at the time of the read.
C9_StaleVersusFresh ==
    [][/\ (stmt'.op = "rec.<name> = value" /\ stmt'.name \in {"width", "height"}) =>
             /\ rec'.dict = [rec.dict EXCEPT ![stmt'.name] = stmt'.value]
             /\ rec'.dict.area = rec.dict.area
       /\ stmt'.op = "print(o.area)" =>
             /\ out' = Circle_area(Circle__init__(o.dict._radius)).value
             /\ o' = o]_vars

C9_Witness ==
    /\ stmt.op = "rec.<name> = value"
    /\ stmt.name = "width"
    /\ rec.dict.width = stmt.value
    /\ rec.dict.width # ctor.width
    /\ rec.dict.height = ctor.height
    /\ rec.dict.area = ctor.width * ctor.height * ctor.multiplier
    /\ rec.dict.area # rec.dict.width * rec.dict.height * ctor.multiplier

====
